---------------------------- MODULE Spec2Model ----------------------------
(***************************************************************************)
(* Model of the audia capture-to-spectrum pipeline.                        *)
(*                                                                         *)
(*   src/src/engine/mod.rs  CpalEngine (host / device selection, the live  *)
(*                          capture stream), the capture callback and the  *)
(*                          AudioStream consumer handle                    *)
(*   src/src/ui/mod.rs      Audia: the consumer loop (StartStreaming,      *)
(*                          StopStreaming, StreamTick) and update_state,   *)
(*                          the sample accumulator and peak extraction     *)
(*                                                                         *)
(* The specifications share the variables:                                 *)
(*   Spec        the application: UI messages drive the engine, the        *)
(*               capture callback runs on the audio thread                 *)
(*   SpecLive    Spec with the periodic StreamTick handled fairly          *)
(*   SpecEngine  a client of the Engine trait calling its operations and   *)
(*               polling the handles start_recording returned              *)
(*   SpecAcc     update_state applied to arbitrary packet sequences        *)
(*   SpecPeak    the analysis step of update_state applied to arbitrary    *)
(*               spectra                                                   *)
(*                                                                         *)
(* Library behaviour the model relies on (cpal, crossbeam_channel):        *)
(*   - a Stream's data callback runs only after play() succeeded and never *)
(*     after the Stream was dropped; dropping a Stream waits for a         *)
(*     callback that is executing and then drops the closure, hence the    *)
(*     Sender the closure owns;                                            *)
(*   - an unbounded channel is FIFO; send fails only when every Receiver   *)
(*     is gone; try_recv yields the oldest message, else Disconnected when *)
(*     every Sender is gone, else Empty.                                   *)
(***************************************************************************)
EXTENDS Integers, Sequences, FiniteSets, TLC

(* ------------------------------ bounds -------------------------------- *)

\* streams built over a run (session ids are 1..MaxSessions)
MaxSessions == 2

\* capture callback invocations over a run
MaxCallbacks == 2

\* update_state calls over a run of SpecAcc
MaxUpdates == 3

\* samples a packet may carry beyond two whole windows
MaxExtra == 1

\* bins of a spectrum in SpecPeak, and the largest amplitude of a bin
MaxBins == 3

MaxAmp == 4

(* --------------------------- program constants ------------------------ *)

RECEIVE_PACKET_SIZE == 256

\* the sampling rate handed to samples_fft_to_spectrum
SamplingRate == 48000

None == "None"

\* cpal::available_hosts(), in enumeration order
AvailableHosts == <<"A", "B">>

HostNames == {"A", "B", "NoSuchHost"}

Device(h, n) == [host |-> h, name |-> n]

\* host.input_devices(), in enumeration order; a name is unique within a
\* host only: both hosts have a device called "mic"
InputDevicesOf(h) ==
    IF h = "A" THEN << Device("A", "mic") >>
    ELSE IF h = "B" THEN << Device("B", "mic") >>
    ELSE << >>

DeviceNames == {"mic", "NoSuchDevice"}

\* cpal::default_host() and its default_input_device()
DefaultHost == "A"
NoDevice == Device(None, None)
DefaultDevices == {NoDevice, Device("A", "mic")}

Sessions == 1..MaxSessions
NoSession == 0

\* A packet is a run of the captured sample stream: the samples are
\* identified by their position in it, so no two samples are equal.
NoPacket == [start |-> -1, len |-> 0]
Packet(start, len) == [start |-> start, len |-> len]
Samples(p) == [i \in 1..p.len |-> p.start + i]

\* packet lengths update_state is tried on: empty, short, one sample short
\* of a window, exactly a window, and longer than two windows
PacketLens ==
    {0, 1, RECEIVE_PACKET_SIZE - 1, RECEIVE_PACKET_SIZE,
     2 * RECEIVE_PACKET_SIZE + MaxExtra}

\* packet lengths the driver delivers to the callback: shorter than a
\* window, and a window and more
CallbackLens == {RECEIVE_PACKET_SIZE - 1, RECEIVE_PACKET_SIZE + MaxExtra}

\* the same for a client of the engine, which never looks into a packet
ClientLens == {RECEIVE_PACKET_SIZE + MaxExtra}

\* Spectra samples_fft_to_spectrum may return (frequency, amplitude before
\* the display multiplier), frequency ascending
Spectra ==
    { << <<0, 0>>, <<187, 0>>, <<375, 0>> >>,
      << <<0, 1>>, <<187, 5>>, <<375, 5>> >> }

(* ------------------------------- state -------------------------------- *)

VARIABLES
    current_host,          \* CpalEngine.current_host
    current_input_device,  \* CpalEngine.current_input_device
    current_stream,        \* CpalEngine.current_stream: a session or NoSession
    ui_stream,             \* Audia.current_stream: the session whose handle the UI holds
    stream_state,          \* per session: "none", "built", "playing", "dropped"
    stream_dev,            \* per session: the device its stream was built on
    chan,                  \* per session: the packets queued in its channel
    rx_alive,              \* per session: its Receiver (AudioStream) exists
    cb_data,               \* per session: the packet of the callback now executing
    next_session,          \* sessions created so far
    pc,                    \* main thread: "idle", or the step inside start_recording
    caller,                \* who called start_recording: "ui" or "client"
    pending,               \* the session start_recording is bringing up
    last_result,           \* what the latest main-thread step returned, if it was start_recording
    last_recv,             \* what the latest main-thread step returned, if it was receive
    current_buf,           \* Spectrogram.current_buf
    user_data,             \* Spectrogram.user_data
    freq_data,             \* Spectrogram.freq_data
    peak_freq,             \* Spectrogram.peak_freq
    spectrum,              \* update_state: what the transform returned for the latest window
    sent,                  \* history, per session: packets the callback enqueued
    received,              \* history, per session: packets receive returned
    appended,              \* history: packets update_state appended, in order
    windows,               \* history: windows handed to the analysis, in order
    captured,              \* samples the driver delivered so far
    ncallbacks,            \* callback invocations so far
    nupdates               \* update_state calls so far

engineVars == <<current_host, current_input_device, current_stream>>
streamVars == <<stream_state, stream_dev, chan, rx_alive, cb_data, next_session>>
ctlVars == <<pc, caller, pending, last_result, last_recv>>
callVars == <<pc, caller, pending>>
accVars == <<current_buf, user_data, freq_data, peak_freq, spectrum>>
histVars == <<sent, received, appended, windows, captured, ncallbacks, nupdates>>

vars == <<current_host, current_input_device, current_stream, ui_stream,
          stream_state, stream_dev, chan, rx_alive, cb_data, next_session,
          pc, caller, pending, last_result, last_recv,
          current_buf, user_data, freq_data, peak_freq, spectrum,
          sent, received, appended, windows, captured, ncallbacks, nupdates>>


(* --------------------------- pure functions --------------------------- *)

\* mutant: a name that matches no enumerated host clears the selection
UseHostFromOrNone(hosts, cur, host_id) ==
    IF \E i \in 1..Len(hosts) : hosts[i] = host_id THEN host_id ELSE None

\* mutant: a name that matches no device of the host clears the selection
UseDeviceFromOrNone(devices, cur, device_name) ==
    IF \E i \in 1..Len(devices) : devices[i].name = device_name
    THEN devices[CHOOSE i \in 1..Len(devices) : devices[i].name = device_name]
    ELSE Device(None, None)

\* use_host: every enumerated host whose name matches is assigned in turn
RECURSIVE UseHostFrom(_, _, _)
UseHostFrom(hosts, cur, host_id) ==
    IF hosts = << >> THEN cur
    ELSE UseHostFrom(Tail(hosts),
                     IF Head(hosts) = host_id THEN Head(hosts) ELSE cur,
                     host_id)

\* use_input_device: every device of the host whose name matches is
\* assigned in turn
RECURSIVE UseDeviceFrom(_, _, _)
UseDeviceFrom(devices, cur, device_name) ==
    IF devices = << >> THEN cur
    ELSE UseDeviceFrom(Tail(devices),
                       IF Head(devices).name = device_name THEN Head(devices) ELSE cur,
                       device_name)

\* mutant: the drained range is one sample short
DrainWindowShort(buf) == SubSeq(buf, 1, RECEIVE_PACKET_SIZE - 1)

\* mutant: the drain takes the newest samples of the buffer
DrainWindowNewest(buf) ==
    SubSeq(buf, Len(buf) - RECEIVE_PACKET_SIZE + 1, Len(buf))

\* mutant: the drain removes one sample more than the window holds
DrainRestSkipsOne(buf) == SubSeq(buf, RECEIVE_PACKET_SIZE + 2, Len(buf))

\* current_buf.drain(0..RECEIVE_PACKET_SIZE): what is taken, what stays
DrainWindow(buf) == SubSeq(buf, 1, RECEIVE_PACKET_SIZE)

DrainRest(buf) == SubSeq(buf, RECEIVE_PACKET_SIZE + 1, Len(buf))

DisplayMultiplier == 2048

\* mutant: the amplitude is cut off at the height of the chart
PointsClamped(sp) ==
    [i \in 1..Len(sp) |->
        <<sp[i][1],
          IF sp[i][2] * DisplayMultiplier > 2 * DisplayMultiplier
          THEN 2 * DisplayMultiplier
          ELSE sp[i][2] * DisplayMultiplier>>]

\* mutant: the fold keeps the later of two entries of equal amplitude
RECURSIVE PeakFoldLast(_, _)
PeakFoldLast(a, points) ==
    IF points = << >> THEN a
    ELSE PeakFoldLast(IF a[2] > Head(points)[2] THEN a ELSE Head(points),
                      Tail(points))

\* (freq.val() as i32, amp.val() * 2048.0)
Points(sp) ==
    [i \in 1..Len(sp) |->
        <<sp[i][1], sp[i][2] * DisplayMultiplier>>]

\* points.iter().fold((0, 0.0), |a, b| if a.1 >= b.1 { a } else { *b })
RECURSIVE PeakFold(_, _)
PeakFold(a, points) ==
    IF points = << >> THEN a
    ELSE PeakFold(IF a[2] >= Head(points)[2] THEN a ELSE Head(points),
                  Tail(points))

Peak(points) == PeakFold(<<0, 0>>, points)[1]

\* freq.val() as i32 of bin k (counted from 0, the 0 Hz bin) of a window of
\* RECEIVE_PACKET_SIZE samples: the cast drops the fraction
BinFreq(k) == (k * SamplingRate) \div RECEIVE_PACKET_SIZE

\* The spectra of SpecPeak: the bins from 0 Hz upwards, which
\* FrequencyLimit::Max keeps, with every combination of amplitudes.
PeakSpectra ==
    { [i \in 1..MaxBins |-> <<BinFreq(i - 1), amp[i]>>] :
          amp \in [1..MaxBins -> 0..MaxAmp] }

\* The accumulator as a value: the four Spectrogram fields and the history
\* of windows cut.
AccState ==
    [buf |-> current_buf, ud |-> user_data, fd |-> freq_data,
     pk |-> peak_freq, sp |-> spectrum, wins |-> windows]

\* mutant: `if` in place of `while`, at most one window is cut per call
UpdateLoopOnce(st, spectra) ==
    IF Len(st.buf) >= RECEIVE_PACKET_SIZE
    THEN LET current_packet == DrainWindow(st.buf)
             points == Points(Head(spectra))
         IN  [buf  |-> DrainRest(st.buf),
              ud   |-> st.ud + RECEIVE_PACKET_SIZE,
              fd   |-> points,
              pk   |-> Peak(points),
              sp   |-> Head(spectra),
              wins |-> Append(st.wins, current_packet)]
    ELSE st

\* the while loop of update_state; spectra holds the spectrum the library
\* returns for each window in turn
RECURSIVE UpdateLoop(_, _)
UpdateLoop(st, spectra) ==
    IF Len(st.buf) >= RECEIVE_PACKET_SIZE
    THEN LET current_packet == DrainWindow(st.buf)
             points == Points(Head(spectra))
         IN  UpdateLoop([buf  |-> DrainRest(st.buf),
                         ud   |-> st.ud + RECEIVE_PACKET_SIZE,
                         fd   |-> points,
                         pk   |-> Peak(points),
                         sp   |-> Head(spectra),
                         wins |-> Append(st.wins, current_packet)],
                        Tail(spectra))
    ELSE st

\* mutant: freq_data.clear() sits before the loop, so a packet that
\* completes no window empties the published spectrum
UpdateStateClears(packet) ==
    LET joined == current_buf \o Samples(packet)
        n == Len(joined) \div RECEIVE_PACKET_SIZE
    IN  \E spectra \in [1..n -> Spectra] :
          \E st \in {UpdateLoop([AccState EXCEPT !.buf = joined], spectra)} :
                /\ current_buf' = st.buf
                /\ user_data' = st.ud
                /\ freq_data' = IF n = 0 THEN << >> ELSE st.fd
                /\ peak_freq' = st.pk
                /\ spectrum' = st.sp
                /\ windows' = st.wins
                /\ appended' = Append(appended, packet)

\* update_state(packet): append, then cut every whole window
UpdateState(packet) ==
    LET joined == current_buf \o Samples(packet)
        n == Len(joined) \div RECEIVE_PACKET_SIZE
    IN  \E spectra \in [1..n -> Spectra] :
          \E st \in {UpdateLoop([AccState EXCEPT !.buf = joined], spectra)} :
                /\ current_buf' = st.buf
                /\ user_data' = st.ud
                /\ freq_data' = st.fd
                /\ peak_freq' = st.pk
                /\ spectrum' = st.sp
                /\ windows' = st.wins
                /\ appended' = Append(appended, packet)

\* the Sender lives in the callback closure, which the Stream owns
TxAlive(s) == stream_state[s] \in {"built", "playing"}

\* mutant: an empty channel never reports that its Sender is gone
TryRecvNeverClosed(s) ==
    IF chan[s] # << >> THEN "Packet" ELSE "Empty"

\* rx.try_recv()
TryRecv(s) ==
    IF chan[s] # << >> THEN "Packet"
    ELSE IF TxAlive(s) THEN "Empty"
    ELSE "Disconnected"

\* what receive returned: the session polled and the result
Recv(s, result) == [session |-> s, result |-> result]
NoRecv == Recv(NoSession, None)

(* -------------------------------- Init -------------------------------- *)

InitStreams ==
    /\ stream_state = [s \in Sessions |-> "none"]
    /\ stream_dev = [s \in Sessions |-> NoDevice]
    /\ chan = [s \in Sessions |-> << >>]
    /\ rx_alive = [s \in Sessions |-> FALSE]
    /\ cb_data = [s \in Sessions |-> NoPacket]
    /\ next_session = 0
    /\ current_stream = NoSession
    /\ ui_stream = NoSession

InitRest ==
    /\ pc = "idle"
    /\ caller = None
    /\ pending = NoSession
    /\ last_result = None
    /\ last_recv = NoRecv
    /\ current_buf = << >>
    /\ user_data = 0
    /\ freq_data = << >>
    /\ peak_freq = 0
    /\ spectrum = << >>
    /\ sent = [s \in Sessions |-> << >>]
    /\ received = [s \in Sessions |-> << >>]
    /\ appended = << >>
    /\ windows = << >>
    /\ captured = 0
    /\ ncallbacks = 0
    /\ nupdates = 0

\* AudioSystem::new: CpalEngine::default(), Audia::new
Init ==
    /\ current_host = DefaultHost
    /\ current_input_device \in DefaultDevices
    /\ InitStreams
    /\ InitRest

\* CpalEngine::new() or CpalEngine::default()
InitEngine ==
    /\ \/ current_host = None /\ current_input_device = NoDevice
       \/ current_host = DefaultHost /\ current_input_device \in DefaultDevices
    /\ InitStreams
    /\ InitRest

(* --------------------------- engine operations ------------------------ *)

\* drop(stream): returns once no callback of the stream is executing; the
\* closure and its Sender go with the stream
CanDrop(s) == cb_data[s] = NoPacket

Dropped(states, s) == [states EXCEPT ![s] = "dropped"]

\* a main-thread step that returns nothing to record
NoReturn == last_result' = None /\ last_recv' = NoRecv

\* Engine::use_host
UseHost(host_id) ==
    /\ pc = "idle"
    /\ current_host' = UseHostFrom(AvailableHosts, current_host, host_id)
    /\ NoReturn
    /\ UNCHANGED <<current_input_device, current_stream, ui_stream>>
    /\ UNCHANGED <<streamVars, callVars, accVars, histVars>>

\* mutant: selecting a device stops the stream that is recording
UseInputDeviceStopsStream(device_name) ==
    /\ pc = "idle"
    /\ current_input_device' =
           IF current_host # None
           THEN UseDeviceFrom(InputDevicesOf(current_host),
                              current_input_device, device_name)
           ELSE current_input_device
    /\ IF current_stream # NoSession
       THEN /\ CanDrop(current_stream)
            /\ stream_state' = Dropped(stream_state, current_stream)
            /\ current_stream' = NoSession
       ELSE UNCHANGED <<stream_state, current_stream>>
    /\ NoReturn
    /\ UNCHANGED <<current_host, ui_stream, stream_dev, chan, rx_alive,
                   cb_data, next_session, callVars, accVars, histVars>>

\* Engine::use_input_device
UseInputDevice(device_name) ==
    /\ pc = "idle"
    /\ current_input_device' =
           IF current_host # None
           THEN UseDeviceFrom(InputDevicesOf(current_host),
                              current_input_device, device_name)
           ELSE current_input_device
    /\ NoReturn
    /\ UNCHANGED <<current_host, current_stream, ui_stream>>
    /\ UNCHANGED <<streamVars, callVars, accVars, histVars>>

\* start_recording up to build_input_stream: the device check, the default
\* configuration, the channel and the stream.  Each platform call may fail.
StartRecordingBuild(who) ==
    /\ pc = "idle"
    /\ last_recv' = NoRecv
    /\ \/ /\ current_input_device = NoDevice
          /\ last_result' = "NoInputDevice"
          /\ UNCHANGED <<streamVars, callVars>>
       \/ /\ current_input_device # NoDevice
          /\ last_result' = "NoDefaultConfig"
          /\ UNCHANGED <<streamVars, callVars>>
       \/ /\ current_input_device # NoDevice
          /\ last_result' = "CreateFailed"
          /\ UNCHANGED <<streamVars, callVars>>
       \/ /\ current_input_device # NoDevice
          /\ next_session < MaxSessions
          /\ LET s == next_session + 1
             IN  /\ next_session' = s
                 /\ stream_state' = [stream_state EXCEPT ![s] = "built"]
                 /\ stream_dev' = [stream_dev EXCEPT ![s] = current_input_device]
                 /\ rx_alive' = [rx_alive EXCEPT ![s] = TRUE]
                 /\ pending' = s
          /\ pc' = "run_stream"
          /\ caller' = who
          /\ last_result' = None
          /\ UNCHANGED <<chan, cb_data>>
    /\ UNCHANGED <<engineVars, ui_stream, accVars, histVars>>

\* mutant: the result of stream.play() is ignored, so a stream that was
\* refused is stored and its handle returned
RunStreamPlayIgnoresError ==
    /\ pc = "run_stream"
    /\ \/ UNCHANGED stream_state
       \/ stream_state' = [stream_state EXCEPT ![pending] = "playing"]
    /\ pc' = "store"
    /\ UNCHANGED <<rx_alive, last_result, caller, pending>>
    /\ UNCHANGED <<engineVars, ui_stream, stream_dev, chan, cb_data,
                   next_session, last_recv, accVars, histVars>>

\* mutant: the stream is stored before play() is called, so a refused
\* stream replaces the one stored before and stays in the engine
RunStreamStoreBeforePlay ==
    /\ pc = "run_stream"
    /\ \/ /\ current_stream # NoSession => CanDrop(current_stream)
          /\ stream_state' = IF current_stream # NoSession
                             THEN Dropped(stream_state, current_stream)
                             ELSE stream_state
          /\ current_stream' = pending
          /\ rx_alive' = [rx_alive EXCEPT ![pending] = FALSE]
          /\ last_result' = "RunFailed"
          /\ pc' = "idle"
          /\ caller' = None
          /\ pending' = NoSession
       \/ /\ stream_state' = [stream_state EXCEPT ![pending] = "playing"]
          /\ pc' = "store"
          /\ UNCHANGED <<current_stream, rx_alive, last_result, caller, pending>>
    /\ UNCHANGED <<current_host, current_input_device, ui_stream, stream_dev,
                   chan, cb_data, next_session, last_recv, accVars, histVars>>

\* run_stream, stream.play(): on failure the stream and the Receiver are
\* dropped and the error returned
RunStreamPlay ==
    /\ pc = "run_stream"
    /\ \/ /\ stream_state' = Dropped(stream_state, pending)
          /\ rx_alive' = [rx_alive EXCEPT ![pending] = FALSE]
          /\ last_result' = "RunFailed"
          /\ pc' = "idle"
          /\ caller' = None
          /\ pending' = NoSession
       \/ /\ stream_state' = [stream_state EXCEPT ![pending] = "playing"]
          /\ pc' = "store"
          /\ UNCHANGED <<rx_alive, last_result, caller, pending>>
    /\ UNCHANGED <<engineVars, ui_stream, stream_dev, chan, cb_data,
                   next_session, last_recv, accVars, histVars>>

\* run_stream, self.current_stream = Some(stream): the stream stored before
\* is dropped by the assignment; Ok(AudioStream::new(rx)) goes to the
\* caller, which start_streaming stores in Audia.current_stream
RunStreamStore ==
    /\ pc = "store"
    /\ current_stream # NoSession => CanDrop(current_stream)
    /\ stream_state' = IF current_stream # NoSession
                       THEN Dropped(stream_state, current_stream)
                       ELSE stream_state
    /\ current_stream' = pending
    /\ ui_stream' = IF caller = "ui" THEN pending ELSE ui_stream
    /\ last_result' = "Ok"
    /\ pc' = "idle"
    /\ caller' = None
    /\ pending' = NoSession
    /\ UNCHANGED <<current_host, current_input_device, stream_dev, chan,
                   rx_alive, cb_data, next_session, last_recv,
                   accVars, histVars>>

\* mutant: the stream is taken out of current_stream and not dropped
StopRecordingKeepsStream ==
    /\ pc = "idle"
    /\ current_stream' = NoSession
    /\ NoReturn
    /\ UNCHANGED <<current_host, current_input_device, ui_stream, streamVars,
                   callVars, accVars, histVars>>

\* mutant: stopping also forgets the selected device
StopRecordingClearsDevice ==
    /\ pc = "idle"
    /\ current_stream # NoSession => CanDrop(current_stream)
    /\ stream_state' = IF current_stream # NoSession
                       THEN Dropped(stream_state, current_stream)
                       ELSE stream_state
    /\ current_stream' = NoSession
    /\ current_input_device' = NoDevice
    /\ NoReturn
    /\ UNCHANGED <<current_host, ui_stream, stream_dev,
                   chan, rx_alive, cb_data, next_session, callVars,
                   accVars, histVars>>

\* Engine::stop_recording
StopRecording ==
    /\ pc = "idle"
    /\ current_stream # NoSession => CanDrop(current_stream)
    /\ stream_state' = IF current_stream # NoSession
                       THEN Dropped(stream_state, current_stream)
                       ELSE stream_state
    /\ current_stream' = NoSession
    /\ NoReturn
    /\ UNCHANGED <<current_host, current_input_device, ui_stream, stream_dev,
                   chan, rx_alive, cb_data, next_session, callVars,
                   accVars, histVars>>

(* -------------------------- the capture callback ---------------------- *)

\* the driver invokes the data callback of a playing stream with a packet
CallbackEnter(s, len) ==
    /\ stream_state[s] = "playing"
    /\ cb_data[s] = NoPacket
    /\ ncallbacks < MaxCallbacks
    /\ ncallbacks' = ncallbacks + 1
    /\ cb_data' = [cb_data EXCEPT ![s] = Packet(captured, len)]
    /\ captured' = captured + len
    /\ UNCHANGED <<engineVars, ui_stream, stream_state, stream_dev, chan,
                   rx_alive, next_session, ctlVars, accVars,
                   sent, received, appended, windows, nupdates>>

\* mutant: the packet is put at the head of the queue
CallbackSendFront(s) ==
    /\ cb_data[s] # NoPacket
    /\ IF rx_alive[s]
       THEN /\ chan' = [chan EXCEPT ![s] = <<cb_data[s]>> \o @]
            /\ sent' = [sent EXCEPT ![s] = Append(@, cb_data[s])]
       ELSE UNCHANGED <<chan, sent>>
    /\ cb_data' = [cb_data EXCEPT ![s] = NoPacket]
    /\ UNCHANGED <<engineVars, ui_stream, stream_state, stream_dev,
                   rx_alive, next_session, ctlVars, accVars,
                   received, appended, windows, captured, ncallbacks, nupdates>>

\* mutant: tx.send(..).unwrap(), a failed send panics and the callback does
\* not return
CallbackSendUnwrap(s) ==
    /\ cb_data[s] # NoPacket
    /\ rx_alive[s]
    /\ chan' = [chan EXCEPT ![s] = Append(@, cb_data[s])]
    /\ sent' = [sent EXCEPT ![s] = Append(@, cb_data[s])]
    /\ cb_data' = [cb_data EXCEPT ![s] = NoPacket]
    /\ UNCHANGED <<engineVars, ui_stream, stream_state, stream_dev,
                   rx_alive, next_session, ctlVars, accVars,
                   received, appended, windows, captured, ncallbacks, nupdates>>

\* mutant: a channel that holds one packet, a send on a full channel is
\* dropped
CallbackSendBounded(s) ==
    /\ cb_data[s] # NoPacket
    /\ IF rx_alive[s] /\ chan[s] = << >>
       THEN /\ chan' = [chan EXCEPT ![s] = Append(@, cb_data[s])]
            /\ sent' = [sent EXCEPT ![s] = Append(@, cb_data[s])]
       ELSE UNCHANGED <<chan, sent>>
    /\ cb_data' = [cb_data EXCEPT ![s] = NoPacket]
    /\ UNCHANGED <<engineVars, ui_stream, stream_state, stream_dev,
                   rx_alive, next_session, ctlVars, accVars,
                   received, appended, windows, captured, ncallbacks, nupdates>>

\* tx.send(data.into()): enqueued unless the Receiver is gone, in which case
\* the error is logged; the callback returns
CallbackSend(s) ==
    /\ cb_data[s] # NoPacket
    /\ IF rx_alive[s]
       THEN /\ chan' = [chan EXCEPT ![s] = Append(@, cb_data[s])]
            /\ sent' = [sent EXCEPT ![s] = Append(@, cb_data[s])]
       ELSE UNCHANGED <<chan, sent>>
    /\ cb_data' = [cb_data EXCEPT ![s] = NoPacket]
    /\ UNCHANGED <<engineVars, ui_stream, stream_state, stream_dev,
                   rx_alive, next_session, ctlVars, accVars,
                   received, appended, windows, captured, ncallbacks, nupdates>>

(* ----------------------------- the consumer --------------------------- *)

\* dropping an AudioStream drops the channel's only Receiver; the channel
\* discards what is still queued
DropReceiver(s) ==
    /\ rx_alive' = [rx_alive EXCEPT ![s] = FALSE]
    /\ chan' = [chan EXCEPT ![s] = << >>]

\* UIMessage::HostChanged
HostChanged(new_host) == UseHost(new_host)

\* UIMessage::InputDeviceChanged
InputDeviceChanged(new_device) == UseInputDevice(new_device)

\* Audia::start_streaming, up to the point start_recording has built the
\* stream; RunStreamPlay and RunStreamStore complete it
StartStreaming ==
    IF ui_stream = NoSession
    THEN StartRecordingBuild("ui")
    ELSE /\ pc = "idle"
         /\ NoReturn
         /\ UNCHANGED <<engineVars, ui_stream, streamVars, callVars,
                        accVars, histVars>>

\* mutant: stopping also starts the accumulator afresh
StopStreamingResets ==
    /\ pc = "idle"
    /\ IF ui_stream # NoSession
       THEN /\ DropReceiver(ui_stream)
            /\ ui_stream' = NoSession
       ELSE UNCHANGED <<rx_alive, chan, ui_stream>>
    /\ current_buf' = << >>
    /\ user_data' = 0
    /\ NoReturn
    /\ UNCHANGED <<engineVars, stream_state, stream_dev, cb_data,
                   next_session, callVars, freq_data, peak_freq, spectrum,
                   histVars>>

\* Audia::stop_streaming
StopStreaming ==
    /\ pc = "idle"
    /\ IF ui_stream # NoSession
       THEN /\ DropReceiver(ui_stream)
            /\ ui_stream' = NoSession
       ELSE UNCHANGED <<rx_alive, chan, ui_stream>>
    /\ NoReturn
    /\ UNCHANGED <<engineVars, stream_state, stream_dev, cb_data,
                   next_session, callVars, accVars, histVars>>

\* Audia::stream_update on UIMessage::StreamTick, which the subscription
\* emits while the UI holds a stream
StreamTick ==
    /\ pc = "idle"
    /\ ui_stream # NoSession
    /\ LET s == ui_stream
           r == TryRecv(s)
       IN  /\ last_recv' = Recv(s, r)
           /\ IF r = "Packet"
              THEN /\ chan' = [chan EXCEPT ![s] = Tail(@)]
                   /\ received' = [received EXCEPT ![s] = Append(@, Head(chan[s]))]
                   /\ UpdateState(Head(chan[s]))
                   /\ nupdates' = nupdates + 1
              ELSE UNCHANGED <<chan, received, accVars, appended, windows, nupdates>>
    /\ last_result' = None
    /\ UNCHANGED <<engineVars, ui_stream, stream_state, stream_dev, rx_alive,
                   cb_data, next_session, callVars,
                   sent, captured, ncallbacks>>

\* a client of the Engine trait calls start_recording
ClientStart == StartRecordingBuild("client")

\* a client polls a handle it holds: AudioStream::receive
Receive(s) ==
    /\ pc = "idle"
    /\ rx_alive[s]
    /\ LET r == TryRecv(s)
       IN  /\ last_recv' = Recv(s, r)
           /\ IF r = "Packet"
              THEN /\ chan' = [chan EXCEPT ![s] = Tail(@)]
                   /\ received' = [received EXCEPT ![s] = Append(@, Head(chan[s]))]
              ELSE UNCHANGED <<chan, received>>
    /\ last_result' = None
    /\ UNCHANGED <<engineVars, ui_stream, stream_state, stream_dev, rx_alive,
                   cb_data, next_session, callVars,
                   accVars, sent, appended, windows, captured, ncallbacks,
                   nupdates>>

\* a client drops a handle it holds
DropHandle(s) ==
    /\ pc = "idle"
    /\ rx_alive[s]
    /\ DropReceiver(s)
    /\ NoReturn
    /\ UNCHANGED <<engineVars, ui_stream, stream_state, stream_dev, cb_data,
                   next_session, callVars, accVars, histVars>>

\* update_state called with the next packet of the sample stream
UpdateStateCall(len) ==
    /\ nupdates < MaxUpdates
    /\ nupdates' = nupdates + 1
    /\ UpdateState(Packet(captured, len))
    /\ captured' = captured + len
    /\ UNCHANGED <<engineVars, ui_stream, streamVars, ctlVars,
                   sent, received, ncallbacks>>

\* The body of update_state's loop after the transform has returned the
\* spectrum of the window: the points, the peak, freq_data.
AnalyzeWindow ==
    /\ pc = "idle"
    /\ spectrum # << >>
    /\ LET points == Points(spectrum)
       IN  /\ peak_freq' = Peak(points)
           /\ freq_data' = points
    /\ UNCHANGED <<engineVars, ui_stream, streamVars, ctlVars,
                   current_buf, user_data, spectrum, histVars>>

(* --------------------------- specifications --------------------------- *)

Next ==
    \/ \E n \in HostNames : HostChanged(n)
    \/ \E n \in DeviceNames : InputDeviceChanged(n)
    \/ StartStreaming
    \/ RunStreamPlay
    \/ RunStreamStore
    \/ StopStreaming
    \/ StreamTick
    \/ \E s \in Sessions, len \in CallbackLens : CallbackEnter(s, len)
    \/ \E s \in Sessions : CallbackSend(s)

Spec == Init /\ [][Next]_vars

\* Audia::subscription emits StreamTick every 5 ms for as long as the UI holds
\* a stream, and the message loop handles every message it is sent: a tick
\* that stays possible is eventually handled
SpecLive == Spec /\ WF_vars(StreamTick)

NextEngine ==
    \/ \E n \in HostNames : UseHost(n)
    \/ \E n \in DeviceNames : UseInputDevice(n)
    \/ ClientStart
    \/ RunStreamPlay
    \/ RunStreamStore
    \/ StopRecording
    \/ \E s \in Sessions : Receive(s)
    \/ \E s \in Sessions : DropHandle(s)
    \/ \E s \in Sessions, len \in ClientLens : CallbackEnter(s, len)
    \/ \E s \in Sessions : CallbackSend(s)

SpecEngine == InitEngine /\ [][NextEngine]_vars

NextAcc == \E len \in PacketLens : UpdateStateCall(len)

SpecAcc == Init /\ [][NextAcc]_vars

\* update_state is in the first pass of its loop: a packet of one window
\* was appended and drained, freq_data cleared, and the transform has
\* returned a spectrum
InitPeak ==
    /\ current_host = DefaultHost
    /\ current_input_device \in DefaultDevices
    /\ InitStreams
    /\ pc = "idle"
    /\ caller = None
    /\ pending = NoSession
    /\ last_result = None
    /\ last_recv = NoRecv
    /\ current_buf = << >>
    /\ user_data = RECEIVE_PACKET_SIZE
    /\ freq_data = << >>
    /\ peak_freq = 0
    /\ spectrum \in PeakSpectra
    /\ sent = [s \in Sessions |-> << >>]
    /\ received = [s \in Sessions |-> << >>]
    /\ appended = << Packet(0, RECEIVE_PACKET_SIZE) >>
    /\ windows = << Samples(Packet(0, RECEIVE_PACKET_SIZE)) >>
    /\ captured = RECEIVE_PACKET_SIZE
    /\ ncallbacks = 0
    /\ nupdates = 1

NextPeak == AnalyzeWindow

SpecPeak == InitPeak /\ [][NextPeak]_vars

(* ------------------------ helpers of the properties ------------------- *)

IsPrefix(a, b) == Len(a) <= Len(b) /\ SubSeq(b, 1, Len(a)) = a

IsSuffix(a, b) == Len(a) <= Len(b) /\ SubSeq(b, Len(b) - Len(a) + 1, Len(b)) = a

RECURSIVE TotalLen(_)
TotalLen(packets) ==
    IF packets = << >> THEN 0 ELSE Head(packets).len + TotalLen(Tail(packets))

RECURSIVE ConcatPackets(_)
ConcatPackets(packets) ==
    IF packets = << >> THEN << >>
    ELSE Samples(Head(packets)) \o ConcatPackets(Tail(packets))

RECURSIVE ConcatWindows(_)
ConcatWindows(ws) ==
    IF ws = << >> THEN << >> ELSE Head(ws) \o ConcatWindows(Tail(ws))

Live == {s \in Sessions : stream_state[s] = "playing"}

\* a step of start_recording, and the step in which it returns
StartRecordingStep ==
    \/ StartRecordingBuild("ui")
    \/ StartRecordingBuild("client")
    \/ RunStreamPlay
    \/ RunStreamStore

StartRecordingReturns == StartRecordingStep /\ pc' = "idle"

(* ------------------------------- claims ------------------------------- *)

\* C1: sample conservation.  After any sequence of update_state calls the
\* samples appended equal windows emitted * window size + the samples left
\* in current_buf, and user_data + Len(current_buf) equals the sum of the
\* lengths of the packets appended.
C1_SampleConservation ==
    /\ TotalLen(appended) = Len(windows) * RECEIVE_PACKET_SIZE + Len(current_buf)
    /\ user_data + Len(current_buf) = TotalLen(appended)

\* an empty packet and a packet of more than two windows were appended,
\* windows were cut and samples are left over
C1_Witness ==
    /\ \E i \in 1..Len(appended) : appended[i].len = 0
    /\ \E i \in 1..Len(appended) : appended[i].len > 2 * RECEIVE_PACKET_SIZE
    /\ Len(windows) >= 3
    /\ current_buf # << >>

\* C2: channel FIFO order.  On every session's channel the packets receive
\* returned are a prefix of the packets the callback sent, in the same
\* order: none duplicated, reordered or skipped.
C2_ChannelFifo ==
    \A s \in Sessions : IsPrefix(received[s], sent[s])

\* the callback sent two packets on a session before the consumer received
\* the first of them
C2_Witness ==
    \E s \in Sessions :
        /\ Len(sent[s]) = 2
        /\ Len(received[s]) = 1
        /\ Len(chan[s]) = 1

\* C3: start_recording called while the engine is Recording returns
\* AlreadyRecording and leaves the session untouched: current_stream, the
\* stream and its channel are what they were.
C3_AlreadyRecording ==
    [][(current_stream # NoSession /\ StartRecordingReturns)
        => /\ last_result' = "AlreadyRecording"
           /\ current_stream' = current_stream
           /\ stream_state'[current_stream] = "playing"
           /\ chan'[current_stream] = chan[current_stream]]_vars

\* C4: at most one capture stream is live (its callback can produce
\* packets) in every reachable state, the steps inside start_recording
\* included.
C4_AtMostOneLive == Cardinality(Live) <= 1

\* C5: stop silences the callback.  stop_recording called while Recording
\* returns with the stream dropped and no callback of it executing, and a
\* dropped stream's callback never runs again: nothing is enqueued into its
\* channel at any later step.
C5_StopSilencesCallback ==
    [][/\ (StopRecording /\ current_stream # NoSession)
            => /\ stream_state'[current_stream] = "dropped"
               /\ cb_data'[current_stream] = NoPacket
       /\ \A s \in Sessions :
            stream_state[s] = "dropped"
                => /\ stream_state'[s] = "dropped"
                   /\ cb_data'[s] = NoPacket
                   /\ sent'[s] = sent[s]
                   /\ IsSuffix(chan'[s], chan[s])]_vars

\* stop_recording has stopped a session whose callback had delivered a
\* packet, the consumer still holds the handle, and the driver has further
\* packets to deliver
C5_Witness ==
    /\ current_stream = NoSession
    /\ pc = "idle"
    /\ ncallbacks < MaxCallbacks
    /\ \E s \in Sessions :
        /\ stream_state[s] = "dropped"
        /\ rx_alive[s]
        /\ sent[s] # << >>

\* C6: when the UI holds no consumer handle the engine is not Recording:
\* stopping streaming takes the session back from Recording to Configured.
C6_NoHandleNotRecording ==
    (pc = "idle" /\ ui_stream = NoSession) => current_stream = NoSession

\* C7: stop_recording is idempotent.  It leaves current_stream None and the
\* host and device selection as they were; called when the engine is not
\* Recording it changes nothing, and it can always be called then.
C7_StopIdempotent ==
    /\ []((pc = "idle" /\ current_stream = NoSession) => ENABLED StopRecording)
    /\ [][StopRecording
            => /\ current_stream' = NoSession
               /\ current_host' = current_host
               /\ current_input_device' = current_input_device
               /\ current_stream = NoSession
                    => UNCHANGED <<ui_stream, streamVars, callVars,
                                   accVars, histVars>>]_vars

\* stop_recording has returned from Recording and can be called again
C7_Witness ==
    /\ pc = "idle"
    /\ current_stream = NoSession
    /\ current_input_device # NoDevice
    /\ \E s \in Sessions : stream_state[s] = "dropped" /\ sent[s] # << >>

\* C8: channel lifetime.  While a session's stream exists receive never
\* reports Disconnected; once the stream is dropped receive returns the
\* backlog oldest first, then reports Disconnected, never Empty, and
\* from then on the channel stays empty and closed.
C8_ChannelLifetime ==
    [][/\ \A s \in Sessions :
            Receive(s)
                => /\ TxAlive(s) => last_recv'.result \in {"Packet", "Empty"}
                   /\ ~TxAlive(s) => last_recv'.result \in {"Packet", "Disconnected"}
                   /\ last_recv'.result = "Packet" <=> chan[s] # << >>
                   /\ chan[s] # << >>
                        => /\ chan'[s] = Tail(chan[s])
                           /\ received'[s] = Append(received[s], Head(chan[s]))
       /\ \A s \in Sessions :
            (stream_state[s] = "dropped" /\ chan[s] = << >>)
                => (stream_state'[s] = "dropped" /\ chan'[s] = << >>)]_vars

\* after stop_recording the consumer drained the backlog and receive
\* reported Disconnected
C8_Witness ==
    \E s \in Sessions :
        /\ last_recv = Recv(s, "Disconnected")
        /\ stream_state[s] = "dropped"
        /\ current_stream = NoSession
        /\ received[s] # << >>
        /\ received[s] = sent[s]

\* C9: windows are cut oldest first and do not overlap.  The windows
\* emitted so far, in emission order, followed by current_buf are the
\* packets appended so far in arrival order.
C9_WindowsPartitionStream ==
    ConcatWindows(windows) \o current_buf = ConcatPackets(appended)

\* a packet of more than two windows arrived on top of buffered samples, so
\* a window spans two packets and one packet yields several windows
C9_Witness ==
    /\ Len(appended) >= 2
    /\ appended[1].len \in 1..(RECEIVE_PACKET_SIZE - 1)
    /\ appended[2].len > 2 * RECEIVE_PACKET_SIZE
    /\ Len(windows) >= 2
    /\ current_buf # << >>

\* C10: a selected device belongs to the currently selected host, because
\* use_host with the name of another enumerated host clears the device
\* selection.
C10_DeviceOfCurrentHost ==
    current_input_device # NoDevice => current_input_device.host = current_host

\* C11: use_host with a name that matches no enumerated host is a silent
\* no-op.  From every state in which the engine is not inside another call,
\* with or without a host selected, the call completes and leaves the
\* selected host, the selected device, the stored stream and every session
\* exactly as they were.
C11_UnknownHostNoOp ==
    /\ [](pc = "idle"
            => \A n \in {m \in HostNames :
                            \A i \in 1..Len(AvailableHosts) : AvailableHosts[i] # m} :
                  ENABLED UseHost(n))
    /\ [][\A n \in {m \in HostNames :
                      \A i \in 1..Len(AvailableHosts) : AvailableHosts[i] # m} :
            UseHost(n)
                => UNCHANGED <<engineVars, ui_stream, streamVars, callVars,
                               accVars, histVars>>]_vars

\* use_host with an unknown name changes nothing, so a state in which no
\* call is in progress and nothing was returned is the state after such a
\* call; here it was made while a host and a device are selected and a
\* session is recording and has delivered a packet
C11_Witness ==
    /\ pc = "idle"
    /\ last_result = None
    /\ last_recv = NoRecv
    /\ current_host # None
    /\ current_input_device # NoDevice
    /\ current_stream # NoSession
    /\ stream_state[current_stream] = "playing"
    /\ sent[current_stream] # << >>

\* C12: use_input_device with a name that matches no input device of the
\* current host, or with no host selected, leaves the selected device
\* unchanged; with a matching name the selected device becomes a device of
\* the current host with exactly that name.  The host, the stored stream
\* and every session are unchanged either way.
C12_SelectInputDevice ==
    [][\A n \in DeviceNames :
          UseInputDevice(n)
              => /\ UNCHANGED <<current_host, current_stream, ui_stream,
                                streamVars, callVars, accVars, histVars>>
                 /\ IF /\ current_host # None
                       /\ \E i \in 1..Len(InputDevicesOf(current_host)) :
                              InputDevicesOf(current_host)[i].name = n
                    THEN /\ current_input_device'.name = n
                         /\ \E i \in 1..Len(InputDevicesOf(current_host)) :
                              InputDevicesOf(current_host)[i] = current_input_device'
                    ELSE current_input_device' = current_input_device]_vars

\* a device of host B is selected: only use_input_device with a matching
\* name under host B selects it
C12_Witness ==
    /\ pc = "idle"
    /\ current_host = "B"
    /\ current_input_device = Device("B", "mic")

\* the results start_recording returns: the error messages of
\* engine/mod.rs lines 184, 181, 178 and 65, and Ok with the handle
StartRecordingResults ==
    {"NoInputDevice", "NoDefaultConfig", "CreateFailed", "RunFailed", "Ok"}

\* C13: start_recording reports each failure cause as an error value and
\* returns the handle only for a stream that was built and activated.
\* Every return carries one of the results above; the result is the
\* no-device error exactly when no device is selected; a refused play() is
\* returned as an error; with Ok the new stream is playing, its Receiver is
\* alive and the stream is stored in the engine; with an error no Receiver
\* that was not there before the call is alive.
C13_StartRecordingErrors ==
    [][/\ StartRecordingReturns
            => /\ last_result' \in StartRecordingResults
               /\ last_result' = "NoInputDevice" <=> current_input_device = NoDevice
               /\ last_result' = "Ok"
                    => /\ pending # NoSession
                       /\ stream_state'[pending] = "playing"
                       /\ rx_alive'[pending]
                       /\ current_stream' = pending
               /\ last_result' # "Ok"
                    => \A s \in Sessions :
                          rx_alive'[s] => (rx_alive[s] /\ s # pending)
       /\ (RunStreamPlay /\ stream_state'[pending] # "playing")
            => (pc' = "idle" /\ last_result' = "RunFailed")]_vars

\* start_recording built a stream, play() refused it and the call returned
\* the error: the newest stream is gone and its channel was never used
C13_Witness ==
    /\ pc = "idle"
    /\ last_result = "RunFailed"
    /\ next_session # NoSession
    /\ stream_state[next_session] = "dropped"
    /\ ~rx_alive[next_session]
    /\ sent[next_session] = << >>

C15_NoPacketLoss ==
    /\ [][\A s \in Sessions :
            (CallbackSend(s) /\ rx_alive[s])
                => /\ chan'[s] = Append(chan[s], cb_data[s])
                   /\ sent'[s] = Append(sent[s], cb_data[s])]_vars
    /\ \A k \in 1..MaxCallbacks :
          (ui_stream # NoSession /\ Len(sent[ui_stream]) >= k)
              ~> \/ ui_stream = NoSession
                 \/ /\ Len(received[ui_stream]) >= k
                    /\ received[ui_stream][k] = sent[ui_stream][k]
                    /\ \E i \in 1..Len(appended) :
                          appended[i] = sent[ui_stream][k]

\* the consumer fell behind: with the UI holding the handle, two packets
\* are queued and nothing that was sent is missing from the queue
C15_Witness ==
    \E s \in Sessions :
        /\ ui_stream = s
        /\ Len(chan[s]) >= 2
        /\ chan[s] = sent[s]

\* the index of the entry of greatest amplitude, the first such entry in
\* the order of the sequence (ascending frequency)
FirstMax(points) ==
    CHOOSE i \in 1..Len(points) :
        /\ \A j \in 1..Len(points) : points[j][2] <= points[i][2]
        /\ \A j \in 1..(i - 1) : points[j][2] < points[i][2]

\* C16: peak extraction.  The peak frequency stored with a spectrum is the
\* frequency of the entry of greatest amplitude, the first such entry in
\* ascending frequency order when several share it; this holds as well
\* when no entry has an amplitude above 0, where the peak is the frequency
\* of the spectrum's first entry.
C16_PeakIsFirstMax ==
    freq_data # << >> => peak_freq = freq_data[FirstMax(freq_data)][1]

\* an all-zero window was analysed: no amplitude is above 0 and the peak is
\* the frequency of the first entry
C16_Witness ==
    /\ freq_data # << >>
    /\ \A i \in 1..Len(freq_data) : freq_data[i][2] = 0
    /\ peak_freq = freq_data[1][1]

\* C17: the display multiplier does not affect peak selection.  The peak
\* stored for a window, taken from the multiplied amplitudes, is the peak
\* the same fold takes from the amplitudes the transform returned.
C17_MultiplierKeepsPeak ==
    freq_data # << >>
        => /\ peak_freq = Peak(spectrum)
           /\ peak_freq = spectrum[FirstMax(spectrum)][1]

\* a spectrum was analysed in which two entries share the greatest
\* amplitude, which is above the first entry's: the peak is the first of
\* the two
C17_Witness ==
    /\ freq_data # << >>
    /\ \E i \in 2..Len(spectrum) :
          /\ peak_freq = spectrum[i][1]
          /\ spectrum[i][2] > spectrum[1][2]
          /\ \E j \in (i + 1)..Len(spectrum) : spectrum[j][2] = spectrum[i][2]
          /\ freq_data[i][2] = MaxAmp * DisplayMultiplier

RECURSIVE IsPowerOfTwo(_)
IsPowerOfTwo(n) ==
    IF n <= 1 THEN n = 1
    ELSE n % 2 = 0 /\ IsPowerOfTwo(n \div 2)

\* C18: every window handed to the spectral analysis has exactly
\* RECEIVE_PACKET_SIZE samples, a power of two, and so is never empty,
\* whatever the lengths of the packets that arrived; the transform is
\* never given a length it rejects.
C18_WindowLength ==
    /\ IsPowerOfTwo(RECEIVE_PACKET_SIZE)
    /\ \A i \in 1..Len(windows) :
          /\ Len(windows[i]) = RECEIVE_PACKET_SIZE
          /\ windows[i] # << >>

\* windows were cut from packets none of which is one window long: an
\* empty packet, and packets shorter and longer than a window
C18_Witness ==
    /\ Len(windows) >= 2
    /\ \E i \in 1..Len(appended) : appended[i].len = 0
    /\ \E i \in 1..Len(appended) : appended[i].len = RECEIVE_PACKET_SIZE - 1
    /\ \A i \in 1..Len(appended) : appended[i].len # RECEIVE_PACKET_SIZE

\* C20: a failed start_recording leaves the engine as it was.  No step of
\* a call that does not return Ok changes the stored stream, the host or
\* the device, or touches a session other than the one the call is
\* bringing up; a session that was playing keeps playing; and when the
\* call has returned its error the only stream in existence is the one the
\* engine stored before the call.
C20_FailedStartKeepsState ==
    [][(StartRecordingStep /\ last_result' # "Ok")
          => /\ UNCHANGED engineVars
             /\ \A s \in Sessions \ {pending, pending'} :
                   /\ stream_state'[s] = stream_state[s]
                   /\ chan'[s] = chan[s]
                   /\ rx_alive'[s] = rx_alive[s]
             /\ \A s \in Live \ {pending} : stream_state'[s] = "playing"
             /\ pc' = "idle"
                  => \A s \in Sessions : TxAlive(s)' => s = current_stream]_vars

\* start_recording was called while a session was recording, play() refused
\* the new stream and the call returned the error: the session stored
\* before is still playing
C20_Witness ==
    /\ pc = "idle"
    /\ last_result = "RunFailed"
    /\ current_stream # NoSession
    /\ stream_state[current_stream] = "playing"
    /\ next_session > current_stream
    /\ stream_state[next_session] = "dropped"

\* C21: whenever update_state has returned, current_buf holds fewer than
\* RECEIVE_PACKET_SIZE samples.  update_state runs to completion inside one
\* consumer-loop event, so this is every state of the model, for every
\* sequence of packet lengths.
C21_BufferBelowWindow ==
    Len(current_buf) < RECEIVE_PACKET_SIZE

\* update_state returned with the buffer one sample short of a window,
\* after it cut windows from packets that together held more than two
C21_Witness ==
    /\ nupdates >= 2
    /\ Len(windows) >= 2
    /\ Len(current_buf) = RECEIVE_PACKET_SIZE - 1

\* C22: selecting a host or an input device while the engine is Recording
\* leaves the live session untouched.  A use_host or use_input_device step
\* taken with a stream stored in the engine does not change current_stream,
\* the stream keeps playing on the device it was built on, and every
\* channel, its queued packets and its Receiver are as before.
C22_SelectionKeepsSession ==
    [][(/\ current_stream # NoSession
        /\ \/ \E n \in HostNames : UseHost(n)
           \/ \E n \in DeviceNames : UseInputDevice(n))
          => /\ current_stream' = current_stream
             /\ stream_state'[current_stream] = "playing"
             /\ stream_dev'[current_stream] = stream_dev[current_stream]
             /\ UNCHANGED <<chan, rx_alive, cb_data, sent, received>>]_vars

\* while a session was recording another host and then a device of that
\* host were selected: the stream still plays on the device it was built
\* on, which is no longer the selected one, and its packets are queued
C22_Witness ==
    /\ pc = "idle"
    /\ current_stream # NoSession
    /\ stream_state[current_stream] = "playing"
    /\ current_input_device # NoDevice
    /\ stream_dev[current_stream] # current_input_device
    /\ current_input_device.host = current_host
    /\ chan[current_stream] # << >>

\* C23: the published spectrum and peak belong to the window emitted last.
\* In a step that appends a packet, with k the number of whole windows in
\* the buffer joined with the packet: if k = 0 only current_buf changes, it
\* grows by the packet, and freq_data and peak_freq stay; if k >= 1 then k
\* windows are emitted, the last of them is the k-th window of the joined
\* buffer, and freq_data and peak_freq are the points and the peak of the
\* spectrum the transform returned for that last window.
C23_PublishedIsLastWindow ==
    [][Len(appended') = Len(appended) + 1
          => LET packet == appended'[Len(appended')]
                 joined == current_buf \o Samples(packet)
                 k == Len(joined) \div RECEIVE_PACKET_SIZE
             IN  IF k = 0
                 THEN /\ current_buf' = joined
                      /\ UNCHANGED <<freq_data, peak_freq, spectrum,
                                     user_data, windows>>
                 ELSE /\ Len(windows') = Len(windows) + k
                      /\ windows'[Len(windows')] =
                             SubSeq(joined, (k - 1) * RECEIVE_PACKET_SIZE + 1,
                                    k * RECEIVE_PACKET_SIZE)
                      /\ spectrum' \in Spectra
                      /\ freq_data' = Points(spectrum')
                      /\ peak_freq' = Peak(Points(spectrum'))]_vars

\* a spectrum with a peak above 0 Hz was published, and the packet appended
\* last completed no window: it only made the buffer grow, and the
\* spectrum of the earlier window is still published
C23_Witness ==
    /\ windows # << >>
    /\ freq_data # << >>
    /\ peak_freq > 0
    /\ appended[Len(appended)].len > 0
    /\ Len(current_buf) >= appended[Len(appended)].len

\* C24: stopping and restarting streaming does not reset the accumulator.
\* No step in which the UI drops its handle (stop_streaming) or is given
\* one, no step that moves start_recording forward, and no step after
\* which the result start_recording returned is still in place (its
\* return, and the callback steps that follow it) changes current_buf,
\* user_data, the published spectrum or what was appended and emitted;
\* the first window emitted afterwards starts with the samples left in
\* current_buf; stop_streaming
\* discards what is queued in the channel of the handle it drops, nothing
\* is received on a channel whose Receiver is gone, and every packet
\* appended is one that was received.
C24_RestartKeepsAccumulator ==
    /\ [][(\/ ui_stream' # ui_stream
           \/ pc' # pc
           \/ last_result' # None)
            => UNCHANGED <<current_buf, user_data, freq_data, peak_freq,
                           appended, windows, received>>]_vars
    /\ [][(Len(appended') = Len(appended) + 1 /\ Len(windows') > Len(windows))
            => windows'[Len(windows) + 1] =
                   SubSeq(current_buf \o Samples(appended'[Len(appended')]),
                          1, RECEIVE_PACKET_SIZE)]_vars
    /\ [][(ui_stream # NoSession /\ ui_stream' = NoSession)
            => (chan'[ui_stream] = << >> /\ ~rx_alive'[ui_stream])]_vars
    /\ [][\A s \in Sessions :
            ~rx_alive[s] => (received'[s] = received[s] /\ chan'[s] = << >>)]_vars
    /\ [](\A i \in 1..Len(appended) :
            \E s \in Sessions :
                \E j \in 1..Len(received[s]) : received[s][j] = appended[i])

\* streaming was stopped and started again, and a window was emitted whose
\* first sample came in a packet of the stopped session and whose last
\* sample came in a packet of the next session
C24_Witness ==
    \E i \in 1..Len(windows) :
        \E s1 \in Sessions, s2 \in Sessions :
            /\ s1 < s2
            /\ \E j \in 1..Len(received[s1]) :
                  /\ received[s1][j].start < windows[i][1]
                  /\ windows[i][1] <= received[s1][j].start + received[s1][j].len
            /\ \E j \in 1..Len(received[s2]) :
                  /\ received[s2][j].start < windows[i][RECEIVE_PACKET_SIZE]
                  /\ windows[i][RECEIVE_PACKET_SIZE]
                        <= received[s2][j].start + received[s2][j].len

=============================================================================
